---- MODULE Spec2Model ----
(***************************************************************************)
(* State-machine model of the youtube2wordpress scripts:                   *)
(*   download_playlist.py / download_single_video.py  (fetch run)          *)
(*   create_posts.py                                  (post creation run)  *)
(*   upload_media.py                                  (upload run)         *)
(* Each script is a sequential pipeline; the remote services and the file  *)
(* system are the environment, whose answers are drawn nondeterministically*)
(* from small sets.                                                        *)
(***************************************************************************)
EXTENDS Integers, Sequences, FiniteSets, TLC

\* ------------------------------------------------------------------ bounds
MaxEntries == 2     \* longest resolved entry list of a fetch run
MaxStore == 2       \* longest metadata store on disk before a run
MaxPosts == 2       \* most items of one category's metadata file
MaxRecords == 2     \* most items of the upload run's metadata file

\* Longest playlist title, in characters.
MaxTitleLen == 3

\* Longest video description, in characters.
MaxDescLen == 6

Ids == {"a", "b"}   \* video ids

VARIABLES
  script,             \* which script this run is
  pc,                 \* position of the run in its main()
  exitCode,           \* process exit status once the run has ended, else -1
  stderr,             \* messages printed to the error stream, in order
  \* ---- fetch run (download_playlist.py, download_single_video.py)
  storeFile,          \* the metadata store file on disk
  store0,             \* the metadata store file as it was before the run
  audioFiles,         \* ids whose {id}.mp3 is on disk
  thumbFiles,         \* ids whose {id}.jpg is on disk
  entries,            \* the resolved entry list
  existing_metadata,  \* dict id -> VideoMetadata
  collected,          \* list of VideoMetadata built by the loop
  position,           \* 1-based index of the next entry
  infoFetches,        \* ids whose extended info was requested, in order
  audioDownloads,     \* ids whose audio download was started, in order
  thumbRequests,      \* thumbnail requests issued, in order: id, candidate, answer
  writes,             \* number of write_metadata_file calls
  \* ---- post creation run (create_posts.py)
  dry_run,            \* --dry-run (also of the upload run)
  metadata_dirs,      \* the (category name, metadata file) pairs found, sorted by name
  category_cache,     \* dict category name -> remote id
  catIndex,           \* 1-based index of the category being processed
  post_entries,       \* the entries loaded for that category
  entryIndex,         \* 1-based index of the next entry of that category
  searchCalls,        \* category names searched for (GET categories), in order
  createCalls,        \* category names created (POST categories), in order
  ensured,            \* runs of ensure_category, in order: name, how it ended, id returned
  postCalls,          \* create-post calls made (POST posts), in order
  \* ---- upload run (upload_media.py)
  skip_missing,       \* --skip-missing
  metadataFile,       \* the metadata file of the source directory
  sourceFiles,        \* the media files of the source directory, as <<id, extension>>
  targets,            \* list(iter_media_targets(...))
  targetIndex,        \* 1-based index of the next target
  successes,          \* the successes counter of main
  uploadCalls,        \* targets handed to upload_media_file, in order
  uploadsReturned,    \* how many upload_media_file calls returned without error
  metaCalls,          \* targets handed to update_media_metadata, in order
  summary,            \* the counts printed by the final summary line
  \* ---- pure functions applied to one input
  fn,                 \* the function applied
  arg,                \* its input
  result              \* its output, once applied

fetchVars == <<storeFile, store0, audioFiles, thumbFiles, entries, existing_metadata,
               collected, position, infoFetches, audioDownloads, thumbRequests, writes>>

postVars == <<metadata_dirs, category_cache, catIndex, post_entries, entryIndex,
              searchCalls, createCalls, ensured, postCalls>>

uploadVars == <<skip_missing, metadataFile, sourceFiles, targets, targetIndex, successes,
                uploadCalls, uploadsReturned, metaCalls, summary>>

pureVars == <<fn, arg, result>>

vars == <<script, pc, exitCode, stderr, dry_run, fetchVars, postVars, uploadVars, pureVars>>

\* --------------------------------------------------------------- helpers
Range(s) == {s[i] : i \in 1..Len(s)}

SeqsUpTo(S, n) == UNION {[1..k -> S] : k \in 0..n}

\* ===========================================================================
\* Fetch run
\* ===========================================================================

THUMBNAIL_CANDIDATES ==
  <<"maxresdefault.jpg", "sddefault.jpg", "hqdefault.jpg", "mqdefault.jpg", "default.jpg">>

\* VideoMetadata dataclass and its JSON form
VideoMetadata(video_id, title, description) ==
  [video_id |-> video_id, title |-> title, description |-> description]

to_dict(m) == [id |-> m.video_id, title |-> m.title, description |-> m.description]

\* JSON items a store on disk may hold before the run
StoredItems == {[id |-> i, title |-> "old title", description |-> "old text"] : i \in Ids}

\* a store file: absent, not JSON, JSON that is not an array, or an array of items
StoreFiles ==
  {[kind |-> k, items |-> <<>>] : k \in {"absent", "corrupt", "notlist"}}
  \cup {[kind |-> "list", items |-> s] :
          s \in {t \in SeqsUpTo(StoredItems, MaxStore) :
                   \A i, j \in 1..Len(t) : t[i].id = t[j].id => i = j}}

\* dict built by the loop of load_existing_metadata over the payload items
RECURSIVE CollectItems(_, _)
CollectItems(items, acc) ==
  IF items = <<>> THEN acc
  ELSE LET item == Head(items)
           next == IF item.id = "" THEN acc
                   ELSE [k \in DOMAIN acc \cup {item.id} |->
                           IF k = item.id
                           THEN VideoMetadata(item.id, item.title, item.description)
                           ELSE acc[k]]
       IN CollectItems(Tail(items), next)

EmptyDict == [k \in {} |-> 0]

\* Nothing is taken from the store file.
load_existing_metadata_mutant(file) == EmptyDict

load_existing_metadata(file) ==
  IF file.kind = "absent" THEN EmptyDict
  ELSE IF file.kind = "corrupt" THEN EmptyDict
  ELSE IF file.kind = "notlist" THEN EmptyDict
  ELSE CollectItems(file.items, EmptyDict)

\* The records are written last first.
write_metadata_file_mutant(metadata) ==
  [kind |-> "list",
   items |-> [i \in 1..Len(metadata) |-> to_dict(metadata[Len(metadata) + 1 - i])]]

write_metadata_file(metadata) ==
  [kind |-> "list", items |-> [i \in 1..Len(metadata) |-> to_dict(metadata[i])]]

\* an entry of the resolved list: None, or a dict with an id and maybe a URL
NoneEntry == [isNone |-> TRUE, id |-> "", url |-> FALSE]

EntryValues ==
  {NoneEntry} \cup {[isNone |-> FALSE, id |-> i, url |-> u] : i \in Ids \cup {""}, u \in BOOLEAN}

\* what the platform answers for one item
InfoOutcomes == {"ok", "DownloadError"}
AudioOutcomes == {"ok", "DownloadError", "RuntimeError"}
ThumbResponses == {"ok", "notfound", "non200", "HTTPError", "URLError"}

\* answers of the thumbnail host to the five candidates: k-1 misses, then r
ThumbScenario(k, miss, r) ==
  [i \in 1..Len(THUMBNAIL_CANDIDATES) |->
     IF i < k THEN miss ELSE IF i = k THEN r ELSE "ok"]

ThumbScenarios ==
  {ThumbScenario(k, miss, r) :
     k \in 1..(Len(THUMBNAIL_CANDIDATES) + 1),
     miss \in {"notfound", "non200"},
     r \in ThumbResponses \ {"notfound", "non200"}}

\* the loop of download_thumbnail from candidate i on: how it ends, and the
\* candidates (by position) it requested, in the order of the requests
RECURSIVE download_thumbnail_from(_, _)
download_thumbnail_from(i, responses) ==
  IF i > Len(THUMBNAIL_CANDIDATES) THEN [result |-> "RuntimeError", requested |-> <<>>]
  ELSE IF responses[i] = "ok" THEN [result |-> "written", requested |-> <<i>>]
  ELSE IF responses[i] \in {"non200", "notfound"}
  THEN LET rest == download_thumbnail_from(i + 1, responses)
       IN  [rest EXCEPT !.requested = <<i>> \o @]
  ELSE [result |-> responses[i], requested |-> <<i>>]

\* The first candidate is passed over.
download_thumbnail_mutant(responses) == download_thumbnail_from(2, responses)

download_thumbnail(responses) == download_thumbnail_from(1, responses)

\* A RuntimeError of the audio download is not taken as a failure.
audio_failed_mutant(audioOut) == audioOut = "DownloadError"

\* except DownloadError / except RuntimeError around download_audio
audio_failed(audioOut) == audioOut \in {"DownloadError", "RuntimeError"}

\* effect of one iteration of the loop of collect_metadata_and_assets on `entry`,
\* given the platform's answers for it
collect_entry(entry, existing, audio, thumbs, infoOut, audioOut, responses) ==
  LET video_id == entry.id
      base == [outcome |-> "skip", msg |-> "", info |-> FALSE, audioDl |-> FALSE,
               requested |-> <<>>, audio |-> audio, thumbs |-> thumbs, appended |-> <<>>]
      audioAfter == IF video_id \notin audio /\ audioOut = "ok"
                    THEN audio \cup {video_id} ELSE audio
      gotAudio == [base EXCEPT !.info = TRUE, !.audioDl = (video_id \notin audio),
                               !.audio = audioAfter]
      thumb == download_thumbnail(responses)
      added == <<VideoMetadata(video_id, "new title", "new text")>>
  IN
  IF entry.isNone THEN [base EXCEPT !.msg = "no data returned"]
  ELSE IF ~entry.url THEN [base EXCEPT !.msg = "missing URL"]
  ELSE IF video_id = "" THEN [base EXCEPT !.msg = "missing video ID"]
  ELSE IF video_id \in DOMAIN existing
  THEN [base EXCEPT !.outcome = "kept",
                    !.msg = IF video_id \notin audio \/ video_id \notin thumbs
                            THEN "metadata present but media files missing" ELSE "",
                    !.appended = <<existing[video_id]>>]
  ELSE IF infoOut = "DownloadError"
  THEN [base EXCEPT !.info = TRUE, !.msg = "info fetch failed"]
  ELSE IF video_id \notin audio /\ audio_failed(audioOut)
  THEN [base EXCEPT !.info = TRUE, !.audioDl = TRUE, !.msg = "Failed to download audio"]
  ELSE IF video_id \in thumbs
  THEN [gotAudio EXCEPT !.outcome = "added", !.appended = added]
  ELSE IF thumb.result = "written"
  THEN [gotAudio EXCEPT !.outcome = "added", !.appended = added,
                        !.requested = thumb.requested,
                        !.thumbs = thumbs \cup {video_id}]
  ELSE IF thumb.result = "RuntimeError"
  THEN [gotAudio EXCEPT !.msg = "Failed to download thumbnail",
                        !.requested = thumb.requested,
                        !.thumbs = thumbs \ {video_id}]
  ELSE [gotAudio EXCEPT !.outcome = "raise", !.msg = thumb.result,
                        !.requested = thumb.requested]

\* existing_metadata[video_id] = metadata_entry
dict_set(d, key, value) == [k \in DOMAIN d \cup {key} |-> IF k = key THEN value ELSE d[k]]

Log(msg, id) == IF msg = "" THEN stderr ELSE Append(stderr, <<msg, id>>)

Exit(code) == /\ pc' = IF code = 0 THEN "done" ELSE "exit"
              /\ exitCode' = code

\* an exception nobody catches: traceback, the interpreter exits with status 1
Uncaught == /\ pc' = "crashed"
            /\ exitCode' = 1

\* the variables of a script that is not the one running
IdleFetch ==
  /\ storeFile = [kind |-> "absent", items |-> <<>>]
  /\ store0 = storeFile
  /\ audioFiles = {}
  /\ thumbFiles = {}
  /\ entries = <<>>
  /\ existing_metadata = EmptyDict
  /\ collected = <<>>
  /\ position = 1
  /\ infoFetches = <<>>
  /\ audioDownloads = <<>>
  /\ thumbRequests = <<>>
  /\ writes = 0

IdlePosts ==
  /\ metadata_dirs = <<>>
  /\ category_cache = EmptyDict
  /\ catIndex = 1
  /\ post_entries = <<>>
  /\ entryIndex = 1
  /\ searchCalls = <<>>
  /\ createCalls = <<>>
  /\ ensured = <<>>
  /\ postCalls = <<>>

IdlePure ==
  /\ fn = "none"
  /\ arg = <<>>
  /\ result = <<>>

IdleUpload ==
  /\ skip_missing = FALSE
  /\ metadataFile = [kind |-> "absent", items |-> <<>>]
  /\ sourceFiles = {}
  /\ targets = <<>>
  /\ targetIndex = 1
  /\ successes = 0
  /\ uploadCalls = <<>>
  /\ uploadsReturned = 0
  /\ metaCalls = <<>>
  /\ summary = <<>>

InitFetch ==
  /\ script \in {"playlist", "single"}
  /\ IdlePure
  /\ dry_run = FALSE
  /\ IdlePosts
  /\ IdleUpload
  /\ pc = "start"
  /\ exitCode = -1
  /\ stderr = <<>>
  /\ storeFile \in StoreFiles
  /\ store0 = storeFile
  /\ audioFiles \in SUBSET Ids
  /\ thumbFiles \in SUBSET Ids
  /\ entries \in IF script = "playlist"
                 THEN SeqsUpTo(EntryValues, MaxEntries)
                 ELSE {<<>>} \cup {<<e>> : e \in {v \in EntryValues : ~v.isNone /\ v.url}}
  /\ existing_metadata = EmptyDict
  /\ collected = <<>>
  /\ position = 1
  /\ infoFetches = <<>>
  /\ audioDownloads = <<>>
  /\ thumbRequests = <<>>
  /\ writes = 0

\* download_playlist.main up to the call of collect_metadata_and_assets
PlaylistSetup ==
  /\ script = "playlist"
  /\ UNCHANGED pureVars
  /\ pc = "start"
  /\ \E cookiesOk \in BOOLEAN, resolved \in BOOLEAN :
       IF ~cookiesOk
       THEN /\ Exit(1)
            /\ stderr' = Log("Cookies file not found", "")
            /\ UNCHANGED existing_metadata
       ELSE IF ~resolved \/ entries = <<>>
       THEN /\ Exit(1)
            /\ stderr' = Log("Failed to get playlist details", "")
            /\ UNCHANGED existing_metadata
       ELSE /\ pc' = "collect"
            /\ existing_metadata' = load_existing_metadata(storeFile)
            /\ stderr' = Log(IF storeFile.kind = "corrupt"
                             THEN "Could not parse existing metadata file" ELSE "", "")
            /\ UNCHANGED exitCode
  /\ UNCHANGED <<script, storeFile, store0, audioFiles, thumbFiles, entries, collected,
                 position, infoFetches, audioDownloads, thumbRequests, writes>>
  /\ UNCHANGED <<dry_run, postVars, uploadVars>>

\* download_single_video.main up to the call of collect_metadata_and_assets
SingleSetup ==
  /\ script = "single"
  /\ UNCHANGED pureVars
  /\ pc = "start"
  /\ \E argsOk \in BOOLEAN :
       IF ~argsOk
       THEN /\ Exit(1)
            /\ stderr' = Log("Cookies file not found or empty playlist name", "")
            /\ UNCHANGED existing_metadata
       ELSE IF entries = <<>>
       THEN /\ Exit(1)
            /\ existing_metadata' = load_existing_metadata(storeFile)
            /\ stderr' = Log("Failed to retrieve video details", "")
       ELSE /\ pc' = "collect"
            /\ existing_metadata' = load_existing_metadata(storeFile)
            /\ stderr' = Log(IF storeFile.kind = "corrupt"
                             THEN "Could not parse existing metadata file" ELSE "", "")
            /\ UNCHANGED exitCode
  /\ UNCHANGED <<script, storeFile, store0, audioFiles, thumbFiles, entries, collected,
                 position, infoFetches, audioDownloads, thumbRequests, writes>>
  /\ UNCHANGED <<dry_run, postVars, uploadVars>>

\* the answers the platform can give to a call the loop makes for `entry`; when the
\* loop makes no such call (entry skipped or kept, file already on disk) one suffices
AnswersFor(entry, existing, onDisk, answers) ==
  IF entry.isNone \/ ~entry.url \/ entry.id = "" \/ entry.id \in DOMAIN existing
     \/ entry.id \in onDisk
  THEN {CHOOSE a \in answers : TRUE}
  ELSE answers

\* one iteration of the for loop of collect_metadata_and_assets
CollectEntry ==
  /\ script \in {"playlist", "single"}
  /\ UNCHANGED pureVars
  /\ pc = "collect"
  /\ position <= Len(entries)
  /\ \E infoOut \in AnswersFor(entries[position], existing_metadata, {}, InfoOutcomes),
        audioOut \in AnswersFor(entries[position], existing_metadata, audioFiles, AudioOutcomes),
        responses \in AnswersFor(entries[position], existing_metadata, thumbFiles, ThumbScenarios) :
       LET entry == entries[position]
           e == collect_entry(entry, existing_metadata, audioFiles, thumbFiles,
                              infoOut, audioOut, responses)
       IN /\ stderr' = Log(e.msg, entry.id)
          /\ audioFiles' = e.audio
          /\ thumbFiles' = e.thumbs
          /\ infoFetches' = IF e.info THEN Append(infoFetches, entry.id) ELSE infoFetches
          /\ audioDownloads' = IF e.audioDl THEN Append(audioDownloads, entry.id)
                               ELSE audioDownloads
          /\ thumbRequests' = thumbRequests \o
                                [k \in 1..Len(e.requested) |->
                                   [id |-> entry.id,
                                    candidate |-> THUMBNAIL_CANDIDATES[e.requested[k]],
                                    response |-> responses[e.requested[k]]]]
          /\ collected' = collected \o e.appended
          /\ existing_metadata' = IF e.outcome = "added"
                                  THEN dict_set(existing_metadata, entry.id, e.appended[1])
                                  ELSE existing_metadata
          /\ IF e.outcome = "raise"
             THEN Uncaught /\ UNCHANGED position
             ELSE position' = position + 1 /\ UNCHANGED <<pc, exitCode>>
  /\ UNCHANGED <<script, storeFile, store0, entries, writes>>
  /\ UNCHANGED <<dry_run, postVars, uploadVars>>

\* download_playlist.main after the loop: write_metadata_file(metadata, metadata_path)
PlaylistWrite ==
  /\ script = "playlist"
  /\ UNCHANGED pureVars
  /\ pc = "collect"
  /\ position > Len(entries)
  /\ storeFile' = write_metadata_file(collected)
  /\ writes' = writes + 1
  /\ Exit(0)
  /\ UNCHANGED <<script, stderr, store0, audioFiles, thumbFiles, entries, existing_metadata,
                 collected, position, infoFetches, audioDownloads, thumbRequests>>
  /\ UNCHANGED <<dry_run, postVars, uploadVars>>

\* download_single_video.main after the loop
SingleWrite ==
  /\ script = "single"
  /\ UNCHANGED pureVars
  /\ pc = "collect"
  /\ position > Len(entries)
  /\ IF collected = <<>>
     THEN UNCHANGED <<storeFile, writes>>
     ELSE /\ storeFile' = write_metadata_file(collected)
          /\ writes' = writes + 1
  /\ Exit(0)
  /\ UNCHANGED <<script, stderr, store0, audioFiles, thumbFiles, entries, existing_metadata,
                 collected, position, infoFetches, audioDownloads, thumbRequests>>
  /\ UNCHANGED <<dry_run, postVars, uploadVars>>

NextFetch == PlaylistSetup \/ SingleSetup \/ CollectEntry \/ PlaylistWrite \/ SingleWrite

SpecFetch == InitFetch /\ [][NextFetch]_vars

\* the records a store file holds
StoredRecords(file) == IF file.kind = "list" THEN Range(file.items) ELSE {}

\* C1: a fetch run never loses records: every record that was in the store before
\* the run is still in the store on disk, whatever the resolved entry list is.
C1_NoRecordLost == \A r \in StoredRecords(store0) : r \in StoredRecords(storeFile)

\* every resolved entry names a stored record whose audio and thumbnail are on disk
FullyDownloaded ==
  /\ store0.kind = "list"
  /\ entries # <<>>
  /\ \A i \in 1..Len(entries) :
       /\ ~entries[i].isNone
       /\ entries[i].url
       /\ \E r \in StoredRecords(store0) : r.id = entries[i].id
       /\ entries[i].id \in audioFiles \cap thumbFiles

\* C2: a rerun over entries that are all stored with both files on disk fetches no
\* info, downloads no audio and no thumbnail, and writes a store holding the same
\* records as before the run.
C2_RerunUnchanged ==
  (pc = "done" /\ FullyDownloaded) =>
     /\ infoFetches = <<>>
     /\ audioDownloads = <<>>
     /\ thumbRequests = <<>>
     /\ StoredRecords(storeFile) = StoredRecords(store0)

\* C3: the store written by a fetch run holds at most one record per id.
C3_OneRecordPerId ==
  writes > 0 =>
     \A i, j \in 1..Len(storeFile.items) :
        storeFile.items[i].id = storeFile.items[j].id => i = j

\* C4: no failure of one item's info fetch, audio download or thumbnail download
\* aborts the batch: the run never ends inside the loop with the store unwritten.
C4_NoItemFailureAbortsBatch == ~(pc = "crashed" /\ position <= Len(entries) /\ writes = 0)

\* C10: an unparseable metadata file is a fatal setup error: the fetch run never
\* overwrites the store and ends with a non-zero exit status.
C10_UnparseableStoreIsFatal ==
  store0.kind = "corrupt" =>
     /\ storeFile = store0
     /\ (pc \in {"done", "exit", "crashed"} => exitCode # 0)

\* The ids of the written records are ids of entries, in the entries' order:
\* record k comes from entry f[k], and f is increasing.
InEncounterOrder ==
  \E f \in [1..Len(storeFile.items) -> 1..Len(entries)] :
    /\ \A k \in 1..Len(storeFile.items) : storeFile.items[k].id = entries[f[k]].id
    /\ \A k, l \in 1..Len(storeFile.items) : k < l => f[k] < f[l]

\* The store file is as it was before the run until the batch is through.
UnwrittenBeforeEnd ==
  /\ writes <= 1
  /\ writes = 0 => storeFile = store0
  /\ pc \in {"start", "collect", "crashed", "exit"} => writes = 0
  /\ writes = 1 =>
       /\ position > Len(entries)
       /\ storeFile.kind = "list"
       /\ InEncounterOrder

\* C13 as stated: a fetch run writes the store file exactly once, after the
\* last entry, and never before; a crash leaves the file as it was; the
\* written records are in the order of the entries.
C13_WrittenExactlyOnceAtEnd ==
  /\ UnwrittenBeforeEnd
  /\ pc = "done" => writes = 1

\* C13 amended: a fetch run writes the store file at most once, only after
\* the last entry, and never before; a crash leaves the file as it was; the
\* written records are in the order of the entries. The playlist script
\* always writes at the end; the single-video script writes at the end
\* unless it collected no record, and then leaves the file as it was.
C13_WrittenAtMostOnceAtEnd ==
  /\ UnwrittenBeforeEnd
  /\ (pc = "done" /\ script = "playlist") => writes = 1
  /\ (pc = "done" /\ script = "single") => (writes = 1 <=> collected # <<>>)

\* A playlist run that wrote two records, b before a, over another store.
C13_Witness ==
  /\ script = "playlist"
  /\ pc = "done"
  /\ writes = 1
  /\ Len(entries) = 2
  /\ Len(storeFile.items) = 2
  /\ storeFile.items[1].id = "b"
  /\ storeFile.items[2].id = "a"
  /\ storeFile # store0

\* Position of a thumbnail file name in the fixed list of candidates.
CandidateRank(name) ==
  CHOOSE i \in 1..Len(THUMBNAIL_CANDIDATES) : THUMBNAIL_CANDIDATES[i] = name

\* The answer sends download_thumbnail on to the next candidate, if any.
MovesOn(request) ==
  /\ request.response \in {"notfound", "non200"}
  /\ CandidateRank(request.candidate) < Len(THUMBNAIL_CANDIDATES)

\* The last thumbnail acquisition of the run so far ended without a file.
LastAcquisitionFailed ==
  /\ thumbRequests # <<>>
  /\ thumbRequests[Len(thumbRequests)].response # "ok"

\* C14: every thumbnail acquisition requests the candidates in the fixed
\* order from the first one, goes on to the next after a 404 (or another
\* non-200 answer), requests nothing after a success, and ends at any other
\* transport error; after an acquisition without success there is no
\* thumbnail file of that id and no record of it.
C14_CandidatesInOrderUntilSuccess ==
  /\ \A k \in 1..Len(thumbRequests) :
       /\ k = 1 => CandidateRank(thumbRequests[k].candidate) = 1
       /\ k > 1 =>
            IF MovesOn(thumbRequests[k - 1])
            THEN /\ thumbRequests[k].id = thumbRequests[k - 1].id
                 /\ CandidateRank(thumbRequests[k].candidate) =
                      CandidateRank(thumbRequests[k - 1].candidate) + 1
            ELSE CandidateRank(thumbRequests[k].candidate) = 1
       /\ k = Len(thumbRequests) => ~MovesOn(thumbRequests[k])
       /\ thumbRequests[k].response \in {"HTTPError", "URLError"} =>
            k = Len(thumbRequests) /\ pc = "crashed"
       /\ thumbRequests[k].response = "ok" => thumbRequests[k].id \in thumbFiles
  /\ LastAcquisitionFailed =>
       LET video_id == thumbRequests[Len(thumbRequests)].id
       IN  /\ video_id \notin thumbFiles
           /\ \A r \in Range(collected) : r.video_id # video_id
           /\ writes > 0 => \A r \in StoredRecords(storeFile) : r.id # video_id

\* Two misses and then a file for a, five misses for b, and the store written.
C14_Witness ==
  /\ pc = "done"
  /\ writes = 1
  /\ Len(thumbRequests) = 8
  /\ thumbRequests[3] = [id |-> "a", candidate |-> "hqdefault.jpg", response |-> "ok"]
  /\ thumbRequests[8] = [id |-> "b", candidate |-> "default.jpg", response |-> "notfound"]
  /\ "a" \in thumbFiles
  /\ "b" \notin thumbFiles
  /\ <<"Failed to download thumbnail", "b">> \in Range(stderr)

\* The ids of the records in the store file before the run.
StoredIds == {r.id : r \in StoredRecords(store0)}

\* The record the store file held for an id before the run.
StoredRecord(video_id) == CHOOSE r \in StoredRecords(store0) : r.id = video_id

Occurrences(seq, x) == Cardinality({i \in DOMAIN seq : seq[i] = x})

\* The entries the loop is through with.
Processed == 1..(position - 1)

\* The entry has a URL and an id.
Usable(entry) == ~entry.isNone /\ entry.url /\ entry.id # ""

\* C15: for a processed entry whose id is in the store loaded at the start,
\* the stored record is kept as it was (same title and description), no info
\* fetch, audio download or thumbnail request is made for the id, and missing
\* media files only give a warning.
C15_StoredEntryKept ==
  \A i \in Processed :
    (Usable(entries[i]) /\ entries[i].id \in StoredIds) =>
      LET video_id == entries[i].id
      IN  /\ \E r \in Range(collected) : to_dict(r) = StoredRecord(video_id)
          /\ \A r \in Range(collected) : r.video_id = video_id => to_dict(r) = StoredRecord(video_id)
          /\ writes > 0 => StoredRecord(video_id) \in StoredRecords(storeFile)
          /\ video_id \notin Range(infoFetches)
          /\ video_id \notin Range(audioDownloads)
          /\ \A k \in 1..Len(thumbRequests) : thumbRequests[k].id # video_id
          /\ (video_id \notin audioFiles \/ video_id \notin thumbFiles) <=>
               <<"metadata present but media files missing", video_id>> \in Range(stderr)

\* The stored record of a is kept though its audio file is missing.
C15_Witness ==
  /\ pc = "done"
  /\ writes = 1
  /\ entries = <<[isNone |-> FALSE, id |-> "a", url |-> TRUE]>>
  /\ "a" \in StoredIds
  /\ "a" \notin audioFiles
  /\ <<"metadata present but media files missing", "a">> \in Range(stderr)
  /\ StoredRecord("a") \in StoredRecords(storeFile)
  /\ infoFetches = <<>>

\* The id has a record that was not in the store loaded at the start.
NewlyRecorded(video_id) ==
  /\ video_id \notin StoredIds
  /\ \/ \E r \in Range(collected) : r.video_id = video_id
     \/ writes > 0 /\ \E r \in StoredRecords(storeFile) : r.id = video_id

\* C17: a record that was not in the loaded store is added only after the
\* info fetch of its id succeeded and with both its audio file and its
\* thumbnail file present; an item whose audio or thumbnail step failed gets
\* no record.
C17_NewRecordHasInfoAndFiles ==
  \A video_id \in Ids :
    /\ NewlyRecorded(video_id) =>
         /\ Occurrences(infoFetches, video_id) >
              Occurrences(stderr, <<"info fetch failed", video_id>>)
         /\ video_id \in audioFiles
         /\ video_id \in thumbFiles
    /\ ( /\ Cardinality({i \in DOMAIN entries : entries[i].id = video_id}) = 1
         /\ \/ <<"Failed to download audio", video_id>> \in Range(stderr)
            \/ <<"Failed to download thumbnail", video_id>> \in Range(stderr) ) =>
         ~NewlyRecorded(video_id)

\* a is downloaded and recorded, the audio download of b fails.
C17_Witness ==
  /\ pc = "done"
  /\ writes = 1
  /\ store0.kind = "absent"
  /\ audioDownloads = <<"a", "b">>
  /\ <<"Failed to download audio", "b">> \in Range(stderr)
  /\ Len(thumbRequests) = 1
  /\ storeFile.items = <<to_dict(VideoMetadata("a", "new title", "new text"))>>

\* ===========================================================================
\* Post creation run (create_posts.py)
\* ===========================================================================

\* category directories under the data root, in sorted order
CategoryNames == <<"News", "Talks">>

\* JSON items of a category's metadata file
PostItems ==
  {[id |-> "a", title |-> "A title", description |-> "text"],
   [id |-> "b", title |-> "", description |-> ""]}

PostFiles ==
  {[kind |-> k, items |-> <<>>] : k \in {"corrupt", "notlist"}}
  \cup {[kind |-> "list", items |-> s] : s \in SeqsUpTo(PostItems, MaxPosts)}

\* sorted lists of (category name, metadata file) that find_metadata_directories can return
MetadataDirLists ==
  {<<>>}
  \cup {<<[name |-> CategoryNames[i], file |-> f]>> : i \in 1..Len(CategoryNames), f \in PostFiles}
  \cup {<<[name |-> CategoryNames[1], file |-> f], [name |-> CategoryNames[2], file |-> g]>> :
          f \in PostFiles, g \in PostFiles}

\* create_posts.load_metadata: the entries kept from a JSON array
RECURSIVE KeepTitled(_)
KeepTitled(items) ==
  IF items = <<>> THEN <<>>
  ELSE IF Head(items).id = "" \/ Head(items).title = "" THEN KeepTitled(Tail(items))
  ELSE <<Head(items)>> \o KeepTitled(Tail(items))

posts_load_metadata(file) ==
  IF file.kind = "absent" THEN [error |-> "FileNotFoundError", entries |-> <<>>]
  ELSE IF file.kind = "corrupt" THEN [error |-> "ValueError", entries |-> <<>>]
  ELSE IF file.kind = "notlist" THEN [error |-> "ValueError", entries |-> <<>>]
  ELSE [error |-> "", entries |-> KeepTitled(file.items)]

\* str.lower() on the category names in play
Lower(name) ==
  IF name \in {"News", "news", "NEWS"} THEN "news"
  ELSE IF name \in {"Talks", "talks", "TALKS"} THEN "talks"
  ELSE IF name = "Newsletter" THEN "newsletter"
  ELSE name

\* categories the remote site may list in a search response
RemoteCategories ==
  {[name |-> "news", id |-> 3], [name |-> "Newsletter", id |-> 4], [name |-> "TALKS", id |-> 5]}

\* answers to GET categories: an HTTP error, a timeout, or a page of categories
SearchResponses ==
  {[status |-> st, items |-> <<>>] : st \in {"http_error", "timeout"}}
  \cup {[status |-> "ok", items |-> s] :
          s \in {t \in SeqsUpTo(RemoteCategories, 2) :
                   \A i, j \in 1..Len(t) : t[i] = t[j] => i = j}}

\* answers to POST categories
CreateResponses ==
  {[status |-> "ok", id |-> 7], [status |-> "ok", id |-> 8], [status |-> "http_error", id |-> 0],
   [status |-> "timeout", id |-> 0], [status |-> "bad_body", id |-> 0]}

\* answers to POST posts
PostOutcomes == {"ok", "http_error", "timeout"}

\* Names are compared as they are, with their case.
RECURSIVE FirstMatch_mutant(_, _)
FirstMatch_mutant(items, category_name) ==
  IF items = <<>> THEN 0
  ELSE IF Head(items).name = category_name THEN Head(items).id
  ELSE FirstMatch_mutant(Tail(items), category_name)

\* first item of the response whose lowered name is the lowered category name
RECURSIVE FirstMatch(_, _)
FirstMatch(items, category_name) ==
  IF items = <<>> THEN 0
  ELSE IF Lower(Head(items).name) = Lower(category_name) THEN Head(items).id
  ELSE FirstMatch(Tail(items), category_name)

\* ensure_category: how it ends ("return", "RuntimeError", or the requests exception
\* that escapes it), the id it returns, whether it issued the create call, and the
\* name in the payload of that call
ensure_category(category_name, search, create) ==
  LET found == FirstMatch(search.items, category_name)
      none == [end |-> "return", id |-> 0, created |-> FALSE, payload |-> ""]
      posted == [none EXCEPT !.created = TRUE, !.payload = category_name]
  IN
  IF search.status = "timeout" THEN [none EXCEPT !.end = "Timeout"]
  ELSE IF search.status = "http_error" THEN [none EXCEPT !.end = "RuntimeError"]
  ELSE IF found # 0 THEN [none EXCEPT !.id = found]
  ELSE IF create.status = "timeout" THEN [posted EXCEPT !.end = "Timeout"]
  ELSE IF create.status = "http_error" THEN [posted EXCEPT !.end = "RuntimeError"]
  ELSE IF create.status = "bad_body" THEN [posted EXCEPT !.end = "RuntimeError"]
  ELSE [posted EXCEPT !.id = create.id]

\* create_post: how it ends for an answer of the remote site
create_post(outcome) ==
  IF outcome = "timeout" THEN "Timeout"
  ELSE IF outcome = "http_error" THEN "RuntimeError"
  ELSE "return"

\* a sign slip in the placeholder test
is_placeholder_mutant(category_id) == category_id > 0

\* if category_id < 0: the cached value is the dry-run placeholder, ask the site
is_placeholder(category_id) == category_id < 0

\* category_cache[category_name] = -1  # placeholder for dry-run
DryRunPlaceholder == -1

\* The site is asked in a dry run too.
needs_category_mutant(category_name, cache, dry) == category_name \notin DOMAIN cache

\* if category_name not in category_cache and not args.dry_run
needs_category(category_name, cache, dry) == category_name \notin DOMAIN cache /\ ~dry

\* The id cached for the first of the categories in the cache is taken.
cached_id_mutant(cache, category_name) ==
  LET first == CHOOSE i \in 1..Len(CategoryNames) :
                 /\ CategoryNames[i] \in DOMAIN cache
                 /\ \A j \in 1..(i - 1) : CategoryNames[j] \notin DOMAIN cache
  IN  cache[CategoryNames[first]]

\* category_id = category_cache[category_name]
cached_id(cache, category_name) == cache[category_name]

InitPosts ==
  /\ script = "posts"
  /\ IdlePure
  /\ pc = "start"
  /\ exitCode = -1
  /\ stderr = <<>>
  /\ dry_run \in BOOLEAN
  /\ metadata_dirs \in MetadataDirLists
  /\ category_cache = EmptyDict
  /\ catIndex = 1
  /\ post_entries = <<>>
  /\ entryIndex = 1
  /\ searchCalls = <<>>
  /\ createCalls = <<>>
  /\ ensured = <<>>
  /\ postCalls = <<>>
  /\ IdleFetch
  /\ IdleUpload

\* create_posts.main up to the loop over metadata_dirs
PostsSetup ==
  /\ script = "posts"
  /\ UNCHANGED pureVars
  /\ pc = "start"
  /\ \E setup \in {"ok", "no env file", "missing credentials", "no data root"} :
       IF setup # "ok"
       THEN Exit(1) /\ stderr' = Log(setup, "")
       ELSE IF metadata_dirs = <<>>
       THEN Exit(0) /\ UNCHANGED stderr
       ELSE pc' = "category" /\ UNCHANGED <<exitCode, stderr>>
  /\ UNCHANGED <<script, dry_run, postVars, fetchVars, uploadVars>>

\* calls made by one run of ensure_category
CallsAfterEnsure(r, name) ==
  /\ searchCalls' = Append(searchCalls, name)
  /\ createCalls' = IF r.created THEN Append(createCalls, r.payload) ELSE createCalls
  /\ ensured' = Append(ensured, [name |-> name, end |-> r.end, id |-> r.id])

\* the body of the loop over metadata_dirs up to the loop over the entries
PostsCategory ==
  /\ script = "posts"
  /\ UNCHANGED pureVars
  /\ pc = "category"
  /\ catIndex <= Len(metadata_dirs)
  /\ LET category_name == metadata_dirs[catIndex].name
         loaded == posts_load_metadata(metadata_dirs[catIndex].file)
         skipCategory == /\ catIndex' = catIndex + 1
                         /\ UNCHANGED <<pc, exitCode, post_entries, entryIndex>>
         enterEntries == /\ pc' = "entry"
                         /\ post_entries' = loaded.entries
                         /\ entryIndex' = 1
                         /\ UNCHANGED <<catIndex, exitCode>>
     IN
     IF loaded.error # ""
     THEN /\ skipCategory
          /\ stderr' = Log(loaded.error, category_name)
          /\ UNCHANGED <<category_cache, searchCalls, createCalls, ensured>>
     ELSE IF loaded.entries = <<>>
     THEN /\ skipCategory
          /\ UNCHANGED <<stderr, category_cache, searchCalls, createCalls, ensured>>
     ELSE IF needs_category(category_name, category_cache, dry_run)
     THEN \E search \in SearchResponses, create \in CreateResponses :
            LET r == ensure_category(category_name, search, create) IN
            /\ CallsAfterEnsure(r, category_name)
            /\ IF r.end = "return"
               THEN /\ category_cache' = dict_set(category_cache, category_name, r.id)
                    /\ enterEntries
                    /\ UNCHANGED stderr
               ELSE IF r.end = "RuntimeError"
               THEN /\ skipCategory
                    /\ stderr' = Log("Failed to list or create category", category_name)
                    /\ UNCHANGED category_cache
               ELSE /\ Uncaught
                    /\ stderr' = Log(r.end, category_name)
                    /\ UNCHANGED <<category_cache, catIndex, post_entries, entryIndex>>
     ELSE /\ category_cache' = IF category_name \notin DOMAIN category_cache
                               THEN dict_set(category_cache, category_name, DryRunPlaceholder)
                               ELSE category_cache
          /\ enterEntries
          /\ UNCHANGED <<stderr, searchCalls, createCalls, ensured>>
  /\ UNCHANGED <<script, dry_run, metadata_dirs, postCalls, fetchVars, uploadVars>>

\* one iteration of the loop over the entries of a category
PostsEntry ==
  /\ script = "posts"
  /\ UNCHANGED pureVars
  /\ pc = "entry"
  /\ entryIndex <= Len(post_entries)
  /\ LET category_name == metadata_dirs[catIndex].name
         entry == post_entries[entryIndex]
         nextEntry == IF entryIndex < Len(post_entries)
                      THEN /\ entryIndex' = entryIndex + 1
                           /\ UNCHANGED <<pc, exitCode, catIndex>>
                      ELSE /\ pc' = "category"
                           /\ catIndex' = catIndex + 1
                           /\ UNCHANGED <<exitCode, entryIndex>>
         leaveCategory == /\ pc' = "category"
                          /\ catIndex' = catIndex + 1
                          /\ UNCHANGED <<exitCode, entryIndex>>
         post(category_id) ==
           \E outcome \in PostOutcomes :
             /\ postCalls' = Append(postCalls, [category |-> category_name,
                                                video_id |-> entry.id,
                                                category_id |-> category_id])
             /\ IF create_post(outcome) = "Timeout"
                THEN /\ Uncaught
                     /\ stderr' = Log("Timeout", entry.id)
                     /\ UNCHANGED <<catIndex, entryIndex>>
                ELSE /\ nextEntry
                     /\ stderr' = Log(IF create_post(outcome) = "RuntimeError"
                                      THEN "Failed to create post" ELSE "", entry.id)
     IN
     IF dry_run
     THEN /\ nextEntry
          /\ UNCHANGED <<stderr, category_cache, searchCalls, createCalls, ensured, postCalls>>
     ELSE IF is_placeholder(cached_id(category_cache, category_name))
     THEN \E search \in SearchResponses, create \in CreateResponses :
            LET r == ensure_category(category_name, search, create) IN
            /\ CallsAfterEnsure(r, category_name)
            /\ IF r.end = "return"
               THEN /\ category_cache' = dict_set(category_cache, category_name, r.id)
                    /\ post(r.id)
               ELSE IF r.end = "RuntimeError"
               THEN /\ leaveCategory
                    /\ stderr' = Log("Failed to list or create category", category_name)
                    /\ UNCHANGED <<category_cache, postCalls>>
               ELSE /\ Uncaught
                    /\ stderr' = Log(r.end, category_name)
                    /\ UNCHANGED <<category_cache, postCalls, catIndex, entryIndex>>
     ELSE /\ post(cached_id(category_cache, category_name))
          /\ UNCHANGED <<category_cache, searchCalls, createCalls, ensured>>
  /\ UNCHANGED <<script, dry_run, metadata_dirs, post_entries, fetchVars, uploadVars>>

\* the loop over metadata_dirs is over: main returns
PostsFinish ==
  /\ script = "posts"
  /\ UNCHANGED pureVars
  /\ pc = "category"
  /\ catIndex > Len(metadata_dirs)
  /\ Exit(0)
  /\ UNCHANGED <<script, stderr, dry_run, postVars, fetchVars, uploadVars>>

NextPosts == PostsSetup \/ PostsCategory \/ PostsEntry \/ PostsFinish

SpecPosts == InitPosts /\ [][NextPosts]_vars

Count(seq, x) == Cardinality({i \in 1..Len(seq) : seq[i] = x})

\* C5: within one run each category name goes through at most one remote
\* search/create sequence (the create, if any, after the search); a cached id comes
\* from that one sequence and every create-post call of the category carries the
\* cached id, so no further search or create call is made for a cached name.
C5_OneSequencePerCategory ==
  /\ \A c \in Range(CategoryNames) :
       /\ Count(searchCalls, c) <= 1
       /\ Count(createCalls, c) <= Count(searchCalls, c)
       /\ c \in DOMAIN category_cache => Count(searchCalls, c) = IF dry_run THEN 0 ELSE 1
  /\ \A i \in 1..Len(postCalls) :
       /\ postCalls[i].category \in DOMAIN category_cache
       /\ postCalls[i].category_id = category_cache[postCalls[i].category]

\* a category whose id was cached after one search and used by two create-post calls
C5_Witness ==
  \E c \in Range(CategoryNames) :
     /\ ~dry_run
     /\ c \in DOMAIN category_cache
     /\ Count(searchCalls, c) = 1
     /\ Cardinality({i \in 1..Len(postCalls) : postCalls[i].category = c}) >= 2

\* C9: a timeout or transport error on a category search, a category create or a
\* post create is a failure of that call only: the run is never terminated by it.
C9_TransportErrorNotFatal == ~(script = "posts" /\ pc = "crashed")

\* ensure_category applied to one name and one pair of answers of the site
InitEnsure ==
  /\ script = "pure"
  /\ pc = "start"
  /\ exitCode = -1
  /\ stderr = <<>>
  /\ dry_run = FALSE
  /\ IdleFetch
  /\ IdlePosts
  /\ IdleUpload
  /\ fn = "ensure_category"
  /\ arg \in [category_name : Range(CategoryNames),
              search : SearchResponses,
              create : CreateResponses]
  /\ result = <<>>

Ensure ==
  /\ fn = "ensure_category"
  /\ pc = "start"
  /\ result' = ensure_category(arg.category_name, arg.search, arg.create)
  /\ pc' = "done"
  /\ UNCHANGED <<script, exitCode, stderr, dry_run, fetchVars, postVars, uploadVars, fn, arg>>

NextEnsure == Ensure

SpecEnsure == InitEnsure /\ [][NextEnsure]_vars

EnsureDone == fn = "ensure_category" /\ pc = "done"

\* Positions of the listed categories whose name is the requested name, case aside.
Matches ==
  {i \in 1..Len(arg.search.items) : Lower(arg.search.items[i].name) = Lower(arg.category_name)}

\* C16: ensure_category returns the id of a listed category whose name is the
\* requested name case-insensitively, without a create call; with no such
\* category it makes one create call carrying the requested name as given and
\* returns the id of the created category; a search answered with a status of
\* 400 or more raises without a create call, and so raises a create answered
\* with a status of 400 or more.
C16_FoundOrCreated ==
  EnsureDone =>
    /\ (arg.search.status = "ok" /\ Matches # {}) =>
         /\ result.end = "return"
         /\ \E i \in Matches : result.id = arg.search.items[i].id
         /\ ~result.created
         /\ result.payload = ""
    /\ (arg.search.status = "ok" /\ Matches = {}) =>
         /\ result.created
         /\ result.payload = arg.category_name
         /\ arg.create.status = "ok" => result.end = "return" /\ result.id = arg.create.id
         /\ arg.create.status = "http_error" => result.end = "RuntimeError"
    /\ arg.search.status = "http_error" =>
         /\ result.end = "RuntimeError"
         /\ ~result.created

\* "News" is found as "news", listed second, and nothing is created.
C16_Witness ==
  /\ EnsureDone
  /\ arg.category_name = "News"
  /\ arg.search = [status |-> "ok",
                   items |-> <<[name |-> "Newsletter", id |-> 4], [name |-> "news", id |-> 3]>>]
  /\ result.end = "return"
  /\ result.id = 3
  /\ ~result.created

\* C19: in a run that is not a dry run, every create-post call carries the id
\* that ensure_category returned for the name of the record's own directory,
\* never the dry-run placeholder and never an id returned for another name;
\* no create-post call is made for a category whose ensure_category run failed.
C19_PostCarriesEnsuredId ==
  (script = "posts" /\ ~dry_run) =>
    \A i \in 1..Len(postCalls) :
      /\ postCalls[i].category_id # DryRunPlaceholder
      /\ \E k \in 1..Len(ensured) : ensured[k].name = postCalls[i].category
      /\ \A k \in 1..Len(ensured) :
           ensured[k].name = postCalls[i].category =>
             /\ ensured[k].end = "return"
             /\ ensured[k].id = postCalls[i].category_id

\* News is found with id 3, Talks is created with id 7, one post for each.
C19_Witness ==
  /\ script = "posts"
  /\ ~dry_run
  /\ pc = "done"
  /\ ensured = <<[name |-> "News", end |-> "return", id |-> 3],
                 [name |-> "Talks", end |-> "return", id |-> 7]>>
  /\ Len(postCalls) = 2
  /\ postCalls[1].category_id = 3
  /\ postCalls[2].category_id = 7

\* The search for News fails, so News gets no post; Talks gets its own.
C19_WitnessFailedCategory ==
  /\ script = "posts"
  /\ ~dry_run
  /\ pc = "done"
  /\ Len(ensured) = 2
  /\ ensured[1] = [name |-> "News", end |-> "RuntimeError", id |-> 0]
  /\ ensured[2].end = "return"
  /\ Len(postCalls) = 1
  /\ postCalls[1].category = "Talks"

\* ===========================================================================
\* Upload run (upload_media.py)
\* ===========================================================================

\* supported extensions and their MIME types, in dict order
AUDIO_MIME_TYPES ==
  <<[ext |-> ".mp3", mime |-> "audio/mpeg"], [ext |-> ".m4a", mime |-> "audio/mp4"],
    [ext |-> ".aac", mime |-> "audio/aac"], [ext |-> ".flac", mime |-> "audio/flac"],
    [ext |-> ".wav", mime |-> "audio/wav"], [ext |-> ".ogg", mime |-> "audio/ogg"]>>

IMAGE_MIME_TYPES ==
  <<[ext |-> ".jpg", mime |-> "image/jpeg"], [ext |-> ".jpeg", mime |-> "image/jpeg"],
    [ext |-> ".png", mime |-> "image/png"], [ext |-> ".webp", mime |-> "image/webp"]>>

\* JSON items of the source directory's metadata file
UploadItems ==
  {[id |-> "a", title |-> "A title", description |-> "text"],
   [id |-> "b", title |-> "", description |-> ""],
   [id |-> "", title |-> "no id", description |-> ""]}

UploadFiles ==
  {[kind |-> k, items |-> <<>>] : k \in {"absent", "corrupt", "notlist"}}
  \cup {[kind |-> "list", items |-> s] : s \in SeqsUpTo(UploadItems, MaxRecords)}

\* media files a source directory may hold for one id
AudioOnDisk == {{}, {".mp3", ".ogg"}}
ImageOnDisk == {{}, {".jpg", ".png"}}

SourceDirs ==
  {UNION {{<<i, e>> : e \in ext[i]} : i \in Ids} :
     ext \in [Ids -> {a \cup b : a \in AudioOnDisk, b \in ImageOnDisk}]}

\* upload_media.load_metadata: the entries kept from a JSON array
RECURSIVE KeepIdentified(_)
KeepIdentified(items) ==
  IF items = <<>> THEN <<>>
  ELSE IF Head(items).id = "" THEN KeepIdentified(Tail(items))
  ELSE <<Head(items)>> \o KeepIdentified(Tail(items))

upload_load_metadata(file) ==
  IF file.kind = "absent" THEN [error |-> "FileNotFoundError", entries |-> <<>>]
  ELSE IF file.kind = "corrupt" THEN [error |-> "ValueError", entries |-> <<>>]
  ELSE IF file.kind = "notlist" THEN [error |-> "ValueError", entries |-> <<>>]
  ELSE [error |-> "", entries |-> KeepIdentified(file.items)]

\* first extension of `types`, in order, whose file {video_id}{extension} exists
RECURSIVE first_existing(_, _, _)
first_existing(video_id, types, files) ==
  IF types = <<>> THEN [found |-> FALSE, ext |-> "", mime |-> ""]
  ELSE IF <<video_id, Head(types).ext>> \in files
  THEN [found |-> TRUE, ext |-> Head(types).ext, mime |-> Head(types).mime]
  ELSE first_existing(video_id, Tail(types), files)

\* a record skipped only when both of its files are absent
missing_files_mutant(audio, thumbnail) == ~audio.found /\ ~thumbnail.found

\* if audio_path is None or thumbnail_path is None
missing_files(audio, thumbnail) == ~audio.found \/ ~thumbnail.found

MediaTarget(record, kind, file) ==
  [video_id |-> record.id, path |-> <<record.id, file.ext>>, kind |-> kind,
   mime_type |-> file.mime, title |-> record.title, description |-> record.description]

\* list(iter_media_targets(...)): the targets yielded, the ids warned about, and
\* whether the generator raised FileNotFoundError
RECURSIVE iter_media_targets(_, _, _, _)
iter_media_targets(files, metadata, skip, acc) ==
  IF metadata = <<>> THEN acc
  ELSE LET record == Head(metadata)
           audio == first_existing(record.id, AUDIO_MIME_TYPES, files)
           thumbnail == first_existing(record.id, IMAGE_MIME_TYPES, files)
       IN IF missing_files(audio, thumbnail)
          THEN IF skip
               THEN iter_media_targets(files, Tail(metadata), skip,
                                       [acc EXCEPT !.warned = Append(@, record.id)])
               ELSE [acc EXCEPT !.raised = TRUE]
          ELSE iter_media_targets(files, Tail(metadata), skip,
                 [acc EXCEPT !.targets = @ \o <<MediaTarget(record, "audio", audio),
                                                 MediaTarget(record, "thumbnail", thumbnail)>>])

\* answers of the remote site to the upload and to the metadata update
UploadOutcomes == {"ok", "ok_no_id", "http_error", "timeout"}
MetaOutcomes == {"ok", "http_error", "timeout"}

\* an outer handler that catches RuntimeError only
upload_one_mutant(uploadOut, metaOut) ==
  IF uploadOut = "http_error"
  THEN [returned |-> FALSE, meta |-> FALSE, counted |-> FALSE, msg |-> "Failed to upload",
        end |-> "continue"]
  ELSE IF uploadOut = "timeout"
  THEN [returned |-> FALSE, meta |-> FALSE, counted |-> FALSE, msg |-> "Timeout",
        end |-> "raise"]
  ELSE IF uploadOut = "ok" /\ metaOut = "timeout"
  THEN [returned |-> TRUE, meta |-> TRUE, counted |-> FALSE, msg |-> "Timeout",
        end |-> "raise"]
  ELSE [returned |-> TRUE, meta |-> uploadOut = "ok", counted |-> TRUE,
        msg |-> IF uploadOut = "ok" /\ metaOut = "http_error"
                THEN "Failed to update metadata" ELSE "",
        end |-> "continue"]

\* the body of the upload loop for one target: try upload_media_file, then
\* update_media_metadata (its RuntimeError caught), successes += 1, except Exception
upload_one(uploadOut, metaOut) ==
  IF uploadOut = "http_error"
  THEN [returned |-> FALSE, meta |-> FALSE, counted |-> FALSE, msg |-> "Failed to upload",
        end |-> "continue"]
  ELSE IF uploadOut = "timeout"
  THEN [returned |-> FALSE, meta |-> FALSE, counted |-> FALSE, msg |-> "Timeout",
        end |-> "continue"]
  ELSE IF uploadOut = "ok_no_id"
  THEN [returned |-> TRUE, meta |-> FALSE, counted |-> TRUE, msg |-> "", end |-> "continue"]
  ELSE IF metaOut = "http_error"
  THEN [returned |-> TRUE, meta |-> TRUE, counted |-> TRUE,
        msg |-> "Failed to update metadata", end |-> "continue"]
  ELSE IF metaOut = "timeout"
  THEN [returned |-> TRUE, meta |-> TRUE, counted |-> FALSE, msg |-> "Timeout",
        end |-> "continue"]
  ELSE [returned |-> TRUE, meta |-> TRUE, counted |-> TRUE, msg |-> "", end |-> "continue"]

InitUpload ==
  /\ script = "upload"
  /\ IdlePure
  /\ pc = "start"
  /\ exitCode = -1
  /\ stderr = <<>>
  /\ dry_run \in BOOLEAN
  /\ skip_missing \in BOOLEAN
  /\ metadataFile \in UploadFiles
  /\ sourceFiles \in SourceDirs
  /\ targets = <<>>
  /\ targetIndex = 1
  /\ successes = 0
  /\ uploadCalls = <<>>
  /\ uploadsReturned = 0
  /\ metaCalls = <<>>
  /\ summary = <<>>
  /\ IdleFetch
  /\ IdlePosts

Warnings(ids) == [i \in 1..Len(ids) |-> <<"Missing files", ids[i]>>]

\* upload_media.main up to the upload loop
UploadSetup ==
  /\ script = "upload"
  /\ UNCHANGED pureVars
  /\ pc = "start"
  /\ \E setup \in {"ok", "no env file", "missing credentials", "no source directory"} :
       LET loaded == upload_load_metadata(metadataFile)
           listed == iter_media_targets(sourceFiles, loaded.entries, skip_missing,
                                        [targets |-> <<>>, warned |-> <<>>, raised |-> FALSE])
       IN
       IF setup # "ok"
       THEN Exit(1) /\ stderr' = Log(setup, "") /\ UNCHANGED targets
       ELSE IF loaded.error # ""
       THEN Exit(1) /\ stderr' = Log(loaded.error, "") /\ UNCHANGED targets
       ELSE IF loaded.entries = <<>>
       THEN Exit(1) /\ stderr' = Log("No entries found in metadata file", "")
            /\ UNCHANGED targets
       ELSE IF listed.raised
       THEN Uncaught /\ stderr' = stderr \o Warnings(listed.warned) \o <<<<"FileNotFoundError", "">>>>
            /\ UNCHANGED targets
       ELSE /\ stderr' = stderr \o Warnings(listed.warned)
            /\ targets' = listed.targets
            /\ IF listed.targets = <<>> \/ dry_run
               THEN Exit(0)
               ELSE pc' = "uploading" /\ UNCHANGED exitCode
  /\ UNCHANGED <<script, dry_run, skip_missing, metadataFile, sourceFiles, targetIndex,
                 successes, uploadCalls, uploadsReturned, metaCalls, summary>>
  /\ UNCHANGED <<fetchVars, postVars>>

\* one iteration of the upload loop
UploadTarget ==
  /\ script = "upload"
  /\ UNCHANGED pureVars
  /\ pc = "uploading"
  /\ targetIndex <= Len(targets)
  /\ \E uploadOut \in UploadOutcomes :
     \E metaOut \in IF uploadOut = "ok" THEN MetaOutcomes ELSE {"ok"} :
       LET target == targets[targetIndex]
           r == upload_one(uploadOut, metaOut)
       IN /\ uploadCalls' = Append(uploadCalls, target)
          /\ uploadsReturned' = IF r.returned THEN uploadsReturned + 1 ELSE uploadsReturned
          /\ metaCalls' = IF r.meta THEN Append(metaCalls, target) ELSE metaCalls
          /\ successes' = IF r.counted THEN successes + 1 ELSE successes
          /\ stderr' = Log(r.msg, target.video_id)
          /\ IF r.end = "raise"
             THEN Uncaught /\ UNCHANGED targetIndex
             ELSE targetIndex' = targetIndex + 1 /\ UNCHANGED <<pc, exitCode>>
  /\ UNCHANGED <<script, dry_run, skip_missing, metadataFile, sourceFiles, targets, summary>>
  /\ UNCHANGED <<fetchVars, postVars>>

\* print(f"Upload complete. {successes} files succeeded, {len(targets) - successes} failed.")
UploadSummary ==
  /\ script = "upload"
  /\ UNCHANGED pureVars
  /\ pc = "uploading"
  /\ targetIndex > Len(targets)
  /\ summary' = <<[label |-> "succeeded", n |-> successes],
                  [label |-> "failed", n |-> Len(targets) - successes]>>
  /\ Exit(0)
  /\ UNCHANGED <<script, stderr, dry_run, skip_missing, metadataFile, sourceFiles, targets,
                 targetIndex, successes, uploadCalls, uploadsReturned, metaCalls>>
  /\ UNCHANGED <<fetchVars, postVars>>

NextUpload == UploadSetup \/ UploadTarget \/ UploadSummary

SpecUpload == InitUpload /\ [][NextUpload]_vars

\* the records of the metadata file, and which of them have both files on disk
FileRecords == SelectSeq(metadataFile.items, LAMBDA item : item.id # "")

HasFile(id, types) == \E i \in 1..Len(types) : <<id, types[i].ext>> \in sourceFiles

Complete(record) == HasFile(record.id, AUDIO_MIME_TYPES) /\ HasFile(record.id, IMAGE_MIME_TYPES)

CompleteRecords == SelectSeq(FileRecords, Complete)

IncompleteRecords == SelectSeq(FileRecords, LAMBDA record : ~Complete(record))

\* strict mode aborts with no upload when a record lacks a file; skip-missing mode
\* attempts exactly the files of the complete records
UploadsOnlyComplete ==
  /\ (~skip_missing /\ IncompleteRecords # <<>>) =>
        /\ uploadCalls = <<>>
        /\ pc \in {"start", "exit", "crashed"}
        /\ pc # "start" => exitCode # 0
  /\ (skip_missing /\ ~dry_run /\ pc = "done") =>
        /\ {<<uploadCalls[i].video_id, uploadCalls[i].kind>> : i \in 1..Len(uploadCalls)}
             = {<<CompleteRecords[i].id, k>> :
                  i \in 1..Len(CompleteRecords), k \in {"audio", "thumbnail"}}
        /\ \A i \in 1..Len(uploadCalls) : uploadCalls[i].path \in sourceFiles

\* C6 as stated: strict mode aborts the whole run with zero uploads when a record
\* lacks a file; skip-missing mode uploads the files of the complete records only and
\* the run reports the count of skipped records.
C6_ReportsSkippedCount ==
  /\ UploadsOnlyComplete
  /\ (skip_missing /\ ~dry_run /\ pc = "done" /\ uploadCalls # <<>>
                    /\ IncompleteRecords # <<>>) =>
        \E i \in 1..Len(summary) :
           summary[i].label = "skipped" /\ summary[i].n = Len(IncompleteRecords)

\* C6 amended: as above, but the skipped records are reported by one warning line
\* each on the error stream, in store order; the summary holds no skipped count.
C6_WarnsPerSkippedRecord ==
  /\ UploadsOnlyComplete
  /\ (skip_missing /\ pc = "done") =>
        /\ SelectSeq(stderr, LAMBDA m : m[1] = "Missing files")
             = [i \in 1..Len(IncompleteRecords) |-> <<"Missing files", IncompleteRecords[i].id>>]
        /\ \A i \in 1..Len(summary) : summary[i].label \in {"succeeded", "failed"}

\* a skip-missing run that skipped a record and uploaded the files of another
C6_Witness ==
  /\ skip_missing /\ ~dry_run /\ pc = "done"
  /\ IncompleteRecords # <<>>
  /\ Len(uploadCalls) >= 2
  /\ summary # <<>>

\* C7: in a non-dry upload run every queued target is attempted exactly once, in
\* store order with each record's audio before its thumbnail, whatever uploads
\* failed before; the run then prints the summary and exits with status zero.
C7_EveryTargetAttemptedOnce ==
  (script = "upload" /\ ~dry_run /\ pc \in {"uploading", "done", "crashed"}) =>
     /\ pc = "crashed" => uploadCalls = <<>>
     /\ pc = "uploading" => uploadCalls = SubSeq(targets, 1, targetIndex - 1)
     /\ (pc = "done" /\ targets # <<>>) =>
           /\ uploadCalls = targets
           /\ summary # <<>>
           /\ exitCode = 0
     /\ Len(targets) = 2 * Len(CompleteRecords) \/ pc = "crashed"
     /\ \A k \in 1..Len(CompleteRecords) :
           2 * k <= Len(targets) =>
             /\ targets[2 * k - 1].video_id = CompleteRecords[k].id
             /\ targets[2 * k - 1].kind = "audio"
             /\ targets[2 * k].video_id = CompleteRecords[k].id
             /\ targets[2 * k].kind = "thumbnail"

\* a finished run of four targets in which an early upload failed
C7_Witness ==
  /\ script = "upload" /\ ~dry_run /\ pc = "done"
  /\ Len(uploadCalls) = 4
  /\ uploadsReturned < 4
  /\ stderr # <<>> /\ stderr[1][1] \in {"Failed to upload", "Timeout"}

\* C8: a failed metadata update (HTTP >= 400, transport error or timeout) after a
\* successful upload leaves the upload counted as a success: the summary's
\* successes are the uploads that returned without error, and successes plus
\* failures is the number of targets.
C8_SummaryCountsReturnedUploads ==
  (script = "upload" /\ pc = "done" /\ summary # <<>>) =>
     /\ summary[1].n = uploadsReturned
     /\ summary[1].n + summary[2].n = Len(targets)
     /\ Len(uploadCalls) = Len(targets)


\* ===========================================================================
\* Post creation run or upload run, with or without --dry-run
\* ===========================================================================

InitPublish == InitPosts \/ InitUpload

NextPublish == NextPosts \/ NextUpload

SpecPublish == InitPublish /\ [][NextPublish]_vars

\* C18: with --dry-run the post creation run makes no call to the site (no
\* category search, no category create, no create-post), and the upload run
\* makes no upload call and no metadata update call.
C18_DryRunMakesNoCall ==
  dry_run =>
    /\ searchCalls = <<>>
    /\ createCalls = <<>>
    /\ ensured = <<>>
    /\ postCalls = <<>>
    /\ uploadCalls = <<>>
    /\ metaCalls = <<>>
    /\ uploadsReturned = 0

\* A dry run of post creation through two categories with entries.
C18_Witness ==
  /\ script = "posts"
  /\ dry_run
  /\ pc = "done"
  /\ exitCode = 0
  /\ DOMAIN category_cache = Range(CategoryNames)
  /\ \A c \in DOMAIN category_cache : category_cache[c] = DryRunPlaceholder
  /\ postCalls = <<>>

\* A dry run of the upload script that listed targets and uploaded none.
C18_WitnessUpload ==
  /\ script = "upload"
  /\ dry_run
  /\ pc = "done"
  /\ targets # <<>>
  /\ uploadCalls = <<>>

\* ---------------------------------------------------------------------------
\* download_playlist.py: the directory name of a playlist.
\* A string is a sequence of one-character strings.
\* ---------------------------------------------------------------------------

INVALID_PATH_CHARS == {"<", ">", ":", "\"", "/", "\\", "|", "?", "*"}

\* What str.strip() and the pattern \s match.
Whitespace == {" ", "\t"}

TitleChars == {"a", "?", ".", " ", "\t"}

Titles == SeqsUpTo(TitleChars, MaxTitleLen)

PlaylistIds == {<<"P", "L", "1">>, <<"P", "L", "2">>}

RECURSIVE lstrip(_)
lstrip(s) ==
  IF s # <<>> /\ Head(s) \in Whitespace THEN lstrip(Tail(s)) ELSE s

RECURSIVE rstrip(_)
rstrip(s) ==
  IF s # <<>> /\ s[Len(s)] \in Whitespace
  THEN rstrip(SubSeq(s, 1, Len(s) - 1))
  ELSE s

strip(s) == rstrip(lstrip(s))

\* "".join("_" if ch in INVALID_PATH_CHARS else ch for ch in name)
replace_invalid(name) ==
  [i \in 1..Len(name) |-> IF name[i] \in INVALID_PATH_CHARS THEN "_" ELSE name[i]]

\* re.sub(r"\s+", " ", s)
RECURSIVE collapse_whitespace(_)
collapse_whitespace(s) ==
  IF s = <<>> THEN <<>>
  ELSE IF Head(s) \in Whitespace
       THEN <<" ">> \o collapse_whitespace(lstrip(Tail(s)))
       ELSE <<Head(s)>> \o collapse_whitespace(Tail(s))

\* The trailing dots are left in place.
rstrip_dots_mutant(s) == s

\* s.rstrip(".")
RECURSIVE rstrip_dots(_)
rstrip_dots(s) ==
  IF s # <<>> /\ s[Len(s)] = "."
  THEN rstrip_dots(SubSeq(s, 1, Len(s) - 1))
  ELSE s

sanitize_path_segment(name, fallback) ==
  LET sanitized == rstrip_dots(collapse_whitespace(strip(replace_invalid(name))))
  IN  IF sanitized = <<>> THEN fallback ELSE sanitized

\* f"playlist_{playlist_id}"
FallbackName(playlist_id) ==
  <<"p", "l", "a", "y", "l", "i", "s", "t", "_">> \o playlist_id

\* The name of the directory under the base directory.
ensure_output_dir(playlist_title, playlist_id) ==
  sanitize_path_segment(playlist_title, FallbackName(playlist_id))

InitSanitize ==
  /\ script = "pure"
  /\ pc = "start"
  /\ exitCode = -1
  /\ stderr = <<>>
  /\ dry_run = FALSE
  /\ IdleFetch
  /\ IdlePosts
  /\ IdleUpload
  /\ fn = "ensure_output_dir"
  /\ arg \in [title : Titles, playlist_id : PlaylistIds]
  /\ result = <<>>

Sanitize ==
  /\ fn = "ensure_output_dir"
  /\ pc = "start"
  /\ result' = ensure_output_dir(arg.title, arg.playlist_id)
  /\ pc' = "done"
  /\ UNCHANGED <<script, exitCode, stderr, dry_run, fetchVars, postVars, uploadVars, fn, arg>>

NextSanitize == Sanitize

SpecSanitize == InitSanitize /\ [][NextSanitize]_vars

Sanitized == fn = "ensure_output_dir" /\ pc = "done"

NoIllegalChar(s) == \A i \in 1..Len(s) : s[i] \notin INVALID_PATH_CHARS

OnlyIllegal(s) == \A i \in 1..Len(s) : s[i] \in INVALID_PATH_CHARS

\* Whitespace, then dots, then whitespace, any of the three possibly empty.
OnlyDotsInWhitespace(s) ==
  \E a \in 0..Len(s) : \E b \in a..Len(s) :
    /\ \A i \in 1..a : s[i] \in Whitespace
    /\ \A i \in (a + 1)..b : s[i] = "."
    /\ \A i \in (b + 1)..Len(s) : s[i] \in Whitespace

\* C11 as stated: the directory name of every title has no illegal character
\* and no leading or trailing dot, and the name of an empty or all-illegal
\* title is the fallback name with the playlist id.
C11_SafeNameOrFallback ==
  Sanitized =>
    /\ NoIllegalChar(result)
    /\ result # <<>>
    /\ Head(result) # "."
    /\ result[Len(result)] # "."
    /\ OnlyIllegal(arg.title) => result = FallbackName(arg.playlist_id)

\* C11 amended: the directory name of every title has no illegal character
\* and no trailing dot, and is never empty; it is the fallback name with the
\* playlist id exactly when the title is empty or is only dots inside
\* optional whitespace. Illegal characters become underscores, so an
\* all-illegal title gives underscores, and a leading dot stays.
C11_NoIllegalNoTrailingDot ==
  Sanitized =>
    /\ NoIllegalChar(result)
    /\ result # <<>>
    /\ result[Len(result)] # "."
    /\ Len(result) <= Len(arg.title) \/ result = FallbackName(arg.playlist_id)
    /\ OnlyDotsInWhitespace(arg.title) <=> result = FallbackName(arg.playlist_id)
    /\ (arg.title # <<>> /\ OnlyIllegal(arg.title)) =>
         result = [i \in 1..Len(arg.title) |-> "_"]
    /\ (arg.title # <<>> /\ Head(arg.title) = "." /\ ~OnlyDotsInWhitespace(arg.title)) =>
         Head(result) = "."

\* A title of illegal characters and a trailing dot: underscores, no fallback.
C11_Witness ==
  /\ Sanitized
  /\ arg.title = <<"?", "?", ".">>
  /\ result = <<"_", "_">>


\* ---------------------------------------------------------------------------
\* create_posts.py: the paragraph blocks of a description.
\* The rendered text is the sequence of its lines, each a sequence of
\* characters and markup tokens.
\* ---------------------------------------------------------------------------

DescriptionChars == {"x", "&", " ", "\n"}

Descriptions == SeqsUpTo(DescriptionChars, MaxDescLen)

\* Index of the first line break of s, Len(s) + 1 if it has none.
FirstBreak(s) ==
  IF \E i \in 1..Len(s) : s[i] = "\n"
  THEN CHOOSE i \in 1..Len(s) : s[i] = "\n" /\ \A j \in 1..(i - 1) : s[j] # "\n"
  ELSE Len(s) + 1

\* str.splitlines(): no empty last line after a final line break.
RECURSIVE splitlines(_)
splitlines(s) ==
  IF s = <<>> THEN <<>>
  ELSE <<SubSeq(s, 1, FirstBreak(s) - 1)>>
         \o splitlines(SubSeq(s, FirstBreak(s) + 1, Len(s)))

\* " ".join(parts)
RECURSIVE join_space(_)
join_space(parts) ==
  IF parts = <<>> THEN <<>>
  ELSE IF Len(parts) = 1 THEN parts[1]
  ELSE parts[1] \o <<" ">> \o join_space(Tail(parts))

\* html.escape(text), quote=True
escape_char(ch) ==
  CASE ch = "&"  -> <<"&", "a", "m", "p", ";">>
    [] ch = "<"  -> <<"&", "l", "t", ";">>
    [] ch = ">"  -> <<"&", "g", "t", ";">>
    [] ch = "\"" -> <<"&", "q", "u", "o", "t", ";">>
    [] ch = "'"  -> <<"&", "#", "x", "2", "7", ";">>
    [] OTHER     -> <<ch>>

RECURSIVE html_escape(_)
html_escape(text) ==
  IF text = <<>> THEN <<>> ELSE escape_char(Head(text)) \o html_escape(Tail(text))

\* The lines collected after the last blank line are dropped.
final_flush_mutant(paragraphs, current) == paragraphs

\* if current: paragraphs.append(" ".join(current))
final_flush(paragraphs, current) ==
  IF current # <<>> THEN Append(paragraphs, join_space(current)) ELSE paragraphs

\* The loop over description.splitlines().
RECURSIVE collect_paragraphs(_, _, _)
collect_paragraphs(lines, paragraphs, current) ==
  IF lines = <<>> THEN final_flush(paragraphs, current)
  ELSE LET stripped == strip(Head(lines))
       IN  IF stripped # <<>>
           THEN collect_paragraphs(Tail(lines), paragraphs, Append(current, stripped))
           ELSE IF current # <<>>
                THEN collect_paragraphs(Tail(lines),
                                        Append(paragraphs, join_space(current)), <<>>)
                ELSE collect_paragraphs(Tail(lines), paragraphs, current)

\* The three lines of one paragraph block.
paragraph_block(content) ==
  << <<"<!-- wp:paragraph -->">>,
     <<"<p>">> \o content \o <<"</p>">>,
     <<"<!-- /wp:paragraph -->">> >>

RECURSIVE render_blocks(_)
render_blocks(paragraphs) ==
  IF paragraphs = <<>> THEN <<>>
  ELSE paragraph_block(html_escape(Head(paragraphs))) \o render_blocks(Tail(paragraphs))

render_description_block(description) ==
  LET paragraphs == collect_paragraphs(splitlines(description), <<>>, <<>>)
  IN  IF paragraphs = <<>> THEN paragraph_block(<<>>) ELSE render_blocks(paragraphs)

InitRender ==
  /\ script = "pure"
  /\ pc = "start"
  /\ exitCode = -1
  /\ stderr = <<>>
  /\ dry_run = FALSE
  /\ IdleFetch
  /\ IdlePosts
  /\ IdleUpload
  /\ fn = "render_description_block"
  /\ arg \in Descriptions
  /\ result = <<>>

Render ==
  /\ fn = "render_description_block"
  /\ pc = "start"
  /\ result' = render_description_block(arg)
  /\ pc' = "done"
  /\ UNCHANGED <<script, exitCode, stderr, dry_run, fetchVars, postVars, uploadVars, fn, arg>>

NextRender == Render

SpecRender == InitRender /\ [][NextRender]_vars

Rendered == fn = "render_description_block" /\ pc = "done"

DescriptionLines == splitlines(arg)

NonBlank(i) == \E j \in 1..Len(DescriptionLines[i]) : DescriptionLines[i][j] \notin Whitespace

\* A maximal run of non-blank lines starts at line i.
RunStarts ==
  {i \in 1..Len(DescriptionLines) : NonBlank(i) /\ (i = 1 \/ ~NonBlank(i - 1))}

\* The last line of the run that starts at line i.
RunEnd(i) ==
  CHOOSE j \in i..Len(DescriptionLines) :
    /\ \A k \in i..j : NonBlank(k)
    /\ j = Len(DescriptionLines) \/ ~NonBlank(j + 1)

\* The run starting at line i is the n-th run.
RunRank(i) == Cardinality({r \in RunStarts : r <= i})

\* Line i without its leading and trailing whitespace.
Trimmed(i) ==
  LET line  == DescriptionLines[i]
      first == CHOOSE a \in 1..Len(line) :
                 line[a] \notin Whitespace /\ \A b \in 1..(a - 1) : line[b] \in Whitespace
      last  == CHOOSE a \in 1..Len(line) :
                 line[a] \notin Whitespace /\ \A b \in (a + 1)..Len(line) : line[b] \in Whitespace
  IN  SubSeq(line, first, last)

\* The text of a block is the trimmed lines i..j with one space between
\* neighbours, nothing before the first and nothing after the last.
RECURSIVE RunText(_, _)
RunText(i, j) ==
  IF i = j THEN Trimmed(i) ELSE Trimmed(i) \o <<" ">> \o RunText(i + 1, j)

\* C12: the rendering has one paragraph block per maximal run of non-blank
\* lines, in order, each holding the run's trimmed lines joined by one space
\* (HTML-escaped), and exactly one empty paragraph block when the description
\* has no non-blank line.
C12_OneBlockPerRun ==
  Rendered =>
    /\ RunStarts = {} => result = paragraph_block(<<>>)
    /\ RunStarts # {} => Len(result) = 3 * Cardinality(RunStarts)
    /\ \A i \in RunStarts :
         SubSeq(result, 3 * RunRank(i) - 2, 3 * RunRank(i)) =
           paragraph_block(html_escape(RunText(i, RunEnd(i))))

\* Two runs, the first of two lines.
C12_Witness ==
  /\ Rendered
  /\ arg = <<"x", "\n", "&", "\n", "\n", "x">>
  /\ Len(result) = 6
  /\ result[2] = <<"<p>", "x", " ", "&", "a", "m", "p", ";", "</p>">>
  /\ result[5] = <<"<p>", "x", "</p>">>

\* A description of blank lines only gives one empty paragraph block.
C12_WitnessBlank ==
  /\ Rendered
  /\ arg = <<" ", "\n", "\n">>
  /\ Len(result) = 3

====
